---- MODULE Spec2Model ----
(***************************************************************************)
(* Model of the quant-portfolio data architecture:                         *)
(*   - the daily batch job  cloudrun/xnys-get-top150tickers-marketcap.py   *)
(*     (enumerate tickers, fetch market caps in a thread pool, rank the    *)
(*     top N, publish to Pub/Sub);                                         *)
(*   - the streaming job  virtual machine/websocket_to_pubsub.py           *)
(*     (a refresh thread that rebuilds the exchange -> tickers index and   *)
(*     the websocket callback that routes messages with it).               *)
(* The 1-minute variant websocket_to_pubsub_1min.py has the same code for  *)
(* every function modelled here.                                           *)
(***************************************************************************)
EXTENDS Integers, Sequences, FiniteSets, TLC

VARIABLES
    \* ---- get_market_caps_parallel / fetch_market_cap_worker
    tickers,      \* the list handed to get_market_caps_parallel
    fut,          \* futures[i]: the future submitted for tickers[i]
    results,      \* the list get_market_caps_parallel appends to
    fpc,          \* "idle" | "running" | "returned"
    \* ---- process_exchange / publish_top_rows
    listing,      \* what is left of the iterator client.list_tickers(...)
    data,         \* the list get_market_caps_parallel returned
    df,           \* the ranked DataFrame, as the sequence of its rows
    bpc,          \* control position in process_exchange
    sent,         \* the messages handed to publisher.publish, in order
    handle,       \* handle[k]: state of the future publish k returned
    waited,       \* waited[k]: how f.result(timeout=30) ended for handle k
    pub_results,  \* the list publish_top_rows builds and returns
    ppc,          \* control position in publish_top_rows
    \* ---- websocket_to_pubsub.py
    dicts,        \* the dict objects built so far; a dict is the sequence of
                  \* its (exchange, tickers) items in insertion order
    all_tickers_by_exchange,   \* the global: which dict object it refers to
    gens,         \* the dicts the global was bound to, as they were then
    rpc,          \* refresh_tickers_every: "check" | "build" | "sleep" | "dead"
    rq,           \* exchanges queried so far by the running rebuild
    elapsed,      \* sleeps of 300 s since last_refresh
    refreshes,    \* rebuilds started
    msgs,         \* handle_msg: what is left of the delivered batch
    symbol,       \* handle_msg: symbol of the message being routed
    view,         \* handle_msg: the dict object the scan iterates
    scan,         \* handle_msg: position of the scan in its items
    mpc,          \* handle_msg: "idle" | "next" | "scan"
    published,    \* what pub_client.publish accepted for this batch
    outcome,      \* how the last message taken from the batch ended
    npub,         \* publishes accepted for the message taken last
    \* ---- main
    mainpc,       \* control position in main
    publisher     \* main's local: what init_publisher gave

fetchVars == <<fut, results, fpc>>
batchVars == <<listing, data, df, bpc, sent, handle, waited, pub_results, ppc>>
refreshVars == <<dicts, all_tickers_by_exchange, gens, rpc, rq, elapsed, refreshes>>
routerVars == <<msgs, symbol, view, scan, mpc, published, outcome, npub>>
streamVars == <<refreshVars, routerVars>>

mainVars == <<mainpc, publisher>>

vars == <<tickers, fetchVars, batchVars, streamVars, mainVars>>

----------------------------------------------------------------------------
\* Bounds of the model (the program's own values are far larger).
MaxTickers == 2            \* longest ticker list fetched
MAX_WORKERS == 1           \* thread-pool size (5 in the program)
MaxListing == 4            \* longest listing client.list_tickers yields
MAX_TICKERS == 3           \* cap on the tickers kept (6000 in the program)
TOP_N == 2                 \* rows kept in the snapshot (150 in the program)
RefreshTicks == 2          \* sleeps of 300 s that make a rebuild due (144)
MaxRefreshes == 1          \* rebuilds the refresh thread starts
MaxBatch == 2              \* longest batch the websocket delivers

Tickers == {"AAA", "BBB"}

SeqsUpTo(S, n) == UNION {[1..k -> S] : k \in 0..n}

----------------------------------------------------------------------------
\* Python values that can stand where a market cap is expected.
\*   absent : the key / attribute does not exist
\*   none   : None
\*   int    : an int, v is its value
\*   float  : a float, v is its value in tenths (505 is 50.5)
\*   str    : a numeric string, v is the number it spells
\*   badstr : a string int() cannot parse
Absent == [t |-> "absent", v |-> 0]
None == [t |-> "none", v |-> 0]
PyInt(n) == [t |-> "int", v |-> n]
PyFloat(tenths) == [t |-> "float", v |-> tenths]
BadStr == [t |-> "badstr", v |-> 0]

\* bool(x)
Truthy(x) ==
    CASE x.t = "absent" -> FALSE
      [] x.t = "none" -> FALSE
      [] x.t = "int" -> x.v # 0
      [] x.t = "float" -> x.v # 0
      [] OTHER -> TRUE

\* dict.get(key): a missing key reads as None
Get(x) == IF x.t = "absent" THEN None ELSE x

\* a or b
PyOr(a, b) == IF Truthy(a) THEN a ELSE b

\* int(x): [ok |-> FALSE] stands for the ValueError / TypeError it raises
PyIntOf(x) ==
    CASE x.t = "int" -> [ok |-> TRUE, v |-> x.v]
      [] x.t = "float" -> [ok |-> TRUE, v |-> x.v \div 10]
      [] x.t = "str" -> [ok |-> TRUE, v |-> x.v]
      [] OTHER -> [ok |-> FALSE, v |-> 0]

\* The part of a response safe_extract_market_cap looks into: `details` is a
\* dict, an object or something else (None, a list, ...); its "results" is
\* absent, None, a dict, an object or something else.
NoRes == [kind |-> "absent", market_cap |-> Absent, marketCap |-> Absent]
NoneRes == [kind |-> "none", market_cap |-> Absent, marketCap |-> Absent]
OtherRes == [kind |-> "other", market_cap |-> Absent, marketCap |-> Absent]

\* `int(mcap) if mcap else 0` and `int(x or 0)`, inside the try of line 45:
\* an exception of int() is caught at line 62 and gives 0.
IntOrZero(x) ==
    IF Truthy(x)
    THEN (IF PyIntOf(x).ok THEN PyIntOf(x).v ELSE 0)
    ELSE 0

safe_extract_market_cap(details) ==
    LET self == [kind |-> details.kind, market_cap |-> details.market_cap,
                 marketCap |-> details.marketCap]
        res == IF details.kind = "dict"
               THEN (IF details.results.kind = "absent" THEN self
                     ELSE details.results)
               ELSE (IF details.results.kind \in {"dict", "obj", "other"}
                     THEN details.results ELSE self)
    IN  IF res.kind = "dict"
        THEN LET m1 == PyOr(Get(res.market_cap), Get(res.marketCap))
                 m2 == IF m1.t = "none"
                       THEN (IF details.kind = "dict"
                             THEN Get(details.market_cap) ELSE None)
                       ELSE m1
             IN  IntOrZero(m2)
        ELSE IF res.kind = "obj" /\ res.market_cap.t # "absent"
        THEN IntOrZero(PyOr(res.market_cap, PyInt(0)))
        ELSE IF res.kind = "obj" /\ res.marketCap.t # "absent"
        THEN IntOrZero(PyOr(res.marketCap, PyInt(0)))
        ELSE 0

\* Responses client.get_ticker_details may give back.
Details(kind, res, mc, mC) ==
    [kind |-> kind, results |-> res, market_cap |-> mc, marketCap |-> mC]

Responses ==
    { Details("obj", NoRes, PyFloat(505), Absent),    \* TickerDetails(market_cap=50.5)
      Details("obj", NoRes, None, Absent),            \* TickerDetails(market_cap=None)
      Details("dict", [kind |-> "dict", market_cap |-> PyInt(10),
                       marketCap |-> Absent], Absent, Absent),
      Details("dict", [kind |-> "dict", market_cap |-> BadStr,
                       marketCap |-> Absent], Absent, Absent),
      Details("other", NoRes, Absent, Absent) }       \* None, a list, ...

\* A response that carries a number nowhere safe_extract_market_cap could
\* look for one (stated without reference to the extraction itself).
Numeric(x) == x.t \in {"int", "float", "str"}
Malformed(d) ==
    /\ ~Numeric(d.market_cap) /\ ~Numeric(d.marketCap)
    /\ ~Numeric(d.results.market_cap) /\ ~Numeric(d.results.marketCap)

\* What one call of client.get_ticker_details does.
Outcomes ==
    {[kind |-> "ok", resp |-> r] : r \in Responses}
        \cup {[kind |-> "RequestException", resp |-> Details("other", NoRes, Absent, Absent)],
              [kind |-> "Exception", resp |-> Details("other", NoRes, Absent, Absent)]}

\* How the outcome of a call is recorded for the properties below.
OutcomeClass(o) ==
    IF o.kind = "ok" THEN (IF Malformed(o.resp) THEN "malformed" ELSE "ok")
    ELSE o.kind

----------------------------------------------------------------------------
\* fetch_market_cap_worker.  A future is
\*   queued  : submitted, no thread has taken it
\*   calling : a pool thread runs line 84
\*   backoff : in time.sleep(0.5) of line 87
\*   delay   : mcap is set, in `if sleep_between: time.sleep(...)`
\*   done    : returned (ticker, mcap)
\*   raised  : an exception left the worker; exc names it
\* calls counts the calls of client.get_ticker_details, first and second
\* record how each ended, slot is the position of the future's record in
\* `results` (0 until as_completed has yielded it).
NewFuture ==
    [phase |-> "queued", calls |-> 0, first |-> "none", second |-> "none",
     mcap |-> 0, exc |-> "none", slot |-> 0]

\* lines 83-86, 93-94: the first lookup
AfterFirstLookupRetryAll(f, o) ==
    IF o.kind = "ok"
    THEN [f EXCEPT !.phase = "delay", !.calls = @ + 1, !.first = OutcomeClass(o),
                   !.mcap = safe_extract_market_cap(o.resp)]
    ELSE [f EXCEPT !.phase = "backoff", !.calls = @ + 1, !.first = OutcomeClass(o)]

AfterFirstLookup(f, o) ==
    CASE o.kind = "ok" ->
            [f EXCEPT !.phase = "delay", !.calls = @ + 1, !.first = OutcomeClass(o),
                      !.mcap = safe_extract_market_cap(o.resp)]
      [] o.kind = "RequestException" ->
            [f EXCEPT !.phase = "backoff", !.calls = @ + 1, !.first = OutcomeClass(o)]
      [] OTHER ->
            [f EXCEPT !.phase = "delay", !.calls = @ + 1, !.first = OutcomeClass(o),
                      !.mcap = 0]

\* lines 88-92: the retry
AfterRetryTransientOnly(f, o) ==
    CASE o.kind = "ok" ->
            [f EXCEPT !.phase = "delay", !.calls = @ + 1, !.second = OutcomeClass(o),
                      !.mcap = safe_extract_market_cap(o.resp)]
      [] o.kind = "RequestException" ->
            [f EXCEPT !.phase = "delay", !.calls = @ + 1, !.second = OutcomeClass(o),
                      !.mcap = 0]
      [] OTHER ->
            [f EXCEPT !.phase = "raised", !.calls = @ + 1, !.second = OutcomeClass(o),
                      !.exc = o.kind]

AfterRetry(f, o) ==
    IF o.kind = "ok"
    THEN [f EXCEPT !.phase = "delay", !.calls = @ + 1, !.second = OutcomeClass(o),
                   !.mcap = safe_extract_market_cap(o.resp)]
    ELSE [f EXCEPT !.phase = "delay", !.calls = @ + 1, !.second = OutcomeClass(o),
                   !.mcap = 0]

\* line 108 / lines 110-111: what the collecting loop appends for a future
CollectedDropRaised(res, t, f) ==
    IF f.phase = "done"
    THEN Append(res, [ticker |-> t, market_cap |-> f.mcap])
    ELSE res

Collected(res, t, f) ==
    IF f.phase = "done"
    THEN Append(res, [ticker |-> t, market_cap |-> f.mcap])
    ELSE Append(res, [ticker |-> t, market_cap |-> 0])

\* lines 82-98 with the pool thread given back before the delay of line 97
BusyUntilDelay(f) == f.phase \in {"calling", "backoff"}

\* lines 82-98: a pool thread is inside fetch_market_cap_worker from its
\* first call to the end of the sleep of line 97
Busy(f) == f.phase \in {"calling", "backoff", "delay"}
InProgress == {i \in DOMAIN fut : Busy(fut[i])}

\* A pool thread takes the next queued call (ThreadPoolExecutor keeps at
\* most max_workers threads; its work queue is first in, first out).
WorkerStart(i) ==
    /\ fpc = "running"
    /\ fut[i].phase = "queued"
    /\ \A j \in DOMAIN fut : j < i => fut[j].phase # "queued"
    /\ Cardinality(InProgress) < MAX_WORKERS
    /\ fut' = [fut EXCEPT ![i].phase = "calling"]
    /\ UNCHANGED <<tickers, results, fpc, batchVars, mainVars, streamVars>>

FirstLookup(i, o) ==
    /\ fut[i].phase = "calling"
    /\ fut' = [fut EXCEPT ![i] = AfterFirstLookup(@, o)]
    /\ UNCHANGED <<tickers, results, fpc, batchVars, mainVars, streamVars>>

Retry(i, o) ==
    /\ fut[i].phase = "backoff"
    /\ fut' = [fut EXCEPT ![i] = AfterRetry(@, o)]
    /\ UNCHANGED <<tickers, results, fpc, batchVars, mainVars, streamVars>>

\* lines 96-98
WorkerReturn(i) ==
    /\ fut[i].phase = "delay"
    /\ fut' = [fut EXCEPT ![i].phase = "done"]
    /\ UNCHANGED <<tickers, results, fpc, batchVars, mainVars, streamVars>>

\* Lines 96-97 are covered by no handler: an exception raised there (not a
\* lookup's) leaves the worker and is stored in the future.
WorkerRaise(i) ==
    /\ fut[i].phase = "delay"
    /\ fut' = [fut EXCEPT ![i].phase = "raised", ![i].exc = "DelayError"]
    /\ UNCHANGED <<tickers, results, fpc, batchVars, mainVars, streamVars>>

\* lines 105-111: as_completed yields each finished future once
Collect(i) ==
    /\ fpc = "running"
    /\ fut[i].phase \in {"done", "raised"}
    /\ fut[i].slot = 0
    /\ results' = Collected(results, tickers[i], fut[i])
    /\ fut' = [fut EXCEPT ![i].slot = Len(results')]
    /\ UNCHANGED <<tickers, fpc, batchVars, mainVars, streamVars>>

\* line 112 reached without the with block and the as_completed loop
\* having waited for the futures
FetchReturnEarly ==
    /\ fpc = "running"
    /\ fpc' = "returned"
    /\ UNCHANGED <<tickers, fut, results, batchVars, mainVars, streamVars>>

\* line 112
FetchReturn ==
    /\ fpc = "running"
    /\ \A i \in DOMAIN fut : fut[i].slot # 0
    /\ fpc' = "returned"
    /\ UNCHANGED <<tickers, fut, results, batchVars, mainVars, streamVars>>

\* main has not been called
MainIdle == mainpc = "off" /\ publisher = "unset"

\* the streaming job is not part of the run
StreamIdle ==
    /\ dicts = <<>> /\ all_tickers_by_exchange = 0 /\ gens = <<>>
    /\ rpc = "idle" /\ rq = 0 /\ elapsed = 0 /\ refreshes = 0
    /\ msgs = <<>> /\ symbol = "" /\ view = 0 /\ scan = 0 /\ mpc = "off"
    /\ published = <<>> /\ outcome = "none" /\ npub = 0

\* process_exchange has not been entered
BatchIdle ==
    /\ listing = <<>> /\ data = <<>> /\ df = <<>> /\ bpc = "idle"
    /\ sent = <<>> /\ handle = <<>> /\ waited = <<>> /\ pub_results = <<>>
    /\ ppc = "idle"

\* lines 102-104: every ticker is submitted
InitFetch ==
    /\ BatchIdle
    /\ MainIdle
    /\ StreamIdle
    /\ tickers \in SeqsUpTo(Tickers, MaxTickers)
    /\ fut = [i \in DOMAIN tickers |-> NewFuture]
    /\ results = <<>>
    /\ fpc = "running"

NextFetch ==
    \/ \E i \in DOMAIN fut : WorkerStart(i)
    \/ \E i \in DOMAIN fut, o \in Outcomes : FirstLookup(i, o)
    \/ \E i \in DOMAIN fut, o \in Outcomes : Retry(i, o)
    \/ \E i \in DOMAIN fut : WorkerReturn(i)
    \/ \E i \in DOMAIN fut : WorkerRaise(i)
    \/ \E i \in DOMAIN fut : Collect(i)
    \/ FetchReturn

SpecFetch == InitFetch /\ [][NextFetch]_vars

----------------------------------------------------------------------------
\* Properties of the fetcher.

Count(s, t) == Cardinality({k \in DOMAIN s : s[k].ticker = t})
CountIn(s, t) == Cardinality({k \in DOMAIN s : s[k] = t})

\* C1: when get_market_caps_parallel returns, `results` holds exactly
\* len(tickers) records and every ticker has as many records as it has
\* places in the input (none omitted, none duplicated), whatever the lookups
\* did and in whatever order the futures were yielded; while it runs, the
\* records are exactly those of the futures yielded so far.
C1_OneRecordPerTicker ==
    /\ Len(results) = Cardinality({i \in DOMAIN fut : fut[i].slot # 0})
    /\ \A i \in DOMAIN fut :
          fut[i].slot # 0 =>
            /\ fut[i].slot \in DOMAIN results
            /\ results[fut[i].slot].ticker = tickers[i]
            /\ \A j \in DOMAIN fut : j # i => fut[j].slot # fut[i].slot
    /\ fpc = "returned" =>
          /\ Len(results) = Len(tickers)
          /\ \A t \in Tickers : Count(results, t) = CountIn(tickers, t)

\* a run that returned two records, in the reverse of the submission order,
\* one of a worker an exception escaped from, one of a retried lookup
C1_Witness ==
    /\ fpc = "returned"
    /\ Len(tickers) = 2
    /\ tickers[1] # tickers[2]
    /\ results[1].ticker = tickers[2]
    /\ \E i \in DOMAIN fut : fut[i].phase = "raised"
    /\ \E i \in DOMAIN fut : fut[i].first = "RequestException"

LookupError == {"RequestException", "Exception"}
Settled == {"delay", "done", "raised"}

\* C2: no ticker is looked up more than twice; a ticker whose first lookup
\* raised RequestException is looked up exactly once more; if that second
\* lookup raises anything, the worker's mcap is 0, the exception does not
\* leave the worker, and the ticker's record has market_cap = 0.
C2_RetryOnceThenZero ==
    \A i \in DOMAIN fut :
        /\ fut[i].calls <= 2
        /\ (fut[i].first = "RequestException" /\ fut[i].phase \in Settled) =>
              fut[i].calls = 2
        /\ (fut[i].first = "RequestException" /\ fut[i].second \in LookupError) =>
              /\ fut[i].phase \in Settled
              /\ fut[i].mcap = 0
              /\ fut[i].exc \notin LookupError
              /\ fut[i].slot # 0 =>
                    results[fut[i].slot] = [ticker |-> tickers[i], market_cap |-> 0]

\* a ticker whose two lookups failed (the second not a RequestException)
\* and whose record, with market_cap 0, was returned with the batch
C2_Witness ==
    /\ fpc = "returned"
    /\ \E i \in DOMAIN fut :
          /\ fut[i].first = "RequestException"
          /\ fut[i].second = "Exception"
          /\ fut[i].calls = 2
          /\ fut[i].phase = "done"
          /\ results[fut[i].slot].market_cap = 0

\* C3: a ticker whose first lookup raised an exception that is not a
\* RequestException, or returned a malformed response, is looked up exactly
\* once, gets mcap 0, no lookup exception leaves the worker, and its
\* record has market_cap = 0.
C3_NonTransientNoRetry ==
    \A i \in DOMAIN fut :
        fut[i].first \in {"Exception", "malformed"} =>
            /\ fut[i].phase \in Settled
            /\ fut[i].calls = 1
            /\ fut[i].second = "none"
            /\ fut[i].mcap = 0
            /\ fut[i].exc \notin LookupError
            /\ fut[i].slot # 0 =>
                  results[fut[i].slot] = [ticker |-> tickers[i], market_cap |-> 0]

\* a batch that returned with one ticker degraded by an exception and
\* another by a malformed response, each looked up once
C3_Witness ==
    /\ fpc = "returned"
    /\ \E i, j \in DOMAIN fut :
          /\ fut[i].first = "Exception" /\ fut[i].calls = 1
          /\ fut[j].first = "malformed" /\ fut[j].calls = 1
          /\ results[fut[i].slot].market_cap = 0
          /\ results[fut[j].slot].market_cap = 0

----------------------------------------------------------------------------
\* process_exchange: enumerate, fetch, rank, publish.

EXCHANGE == "XNYS"
McapValues == {0, 10, 50}

\* The tickers the source lists, in the order sort="ticker" gives them; ""
\* is a listing item with no usable ticker.
TickerOrder == <<"AAA", "BBB", "CCC", "DDD">>
Listed == {TickerOrder[k] : k \in DOMAIN TickerOrder}
Items == Listed \cup {""}
Rank(t) == CHOOSE k \in DOMAIN TickerOrder : TickerOrder[k] = t
Listings ==
    {s \in SeqsUpTo(Items, MaxListing) :
        \A a, b \in DOMAIN s :
            (a < b /\ s[a] # "" /\ s[b] # "") => Rank(s[a]) < Rank(s[b])}

\* lines 67-79: the loop over the listing; `rest` is what the break leaves
\* in the iterator
RECURSIVE ListLoop(_, _, _)
ListLoop(it, acc, max) ==
    IF it = <<>> THEN [tickers |-> acc, rest |-> <<>>]
    ELSE IF Head(it) = "" THEN ListLoop(Tail(it), acc, max)
    ELSE IF Len(acc) + 1 >= max
         THEN [tickers |-> Append(acc, Head(it)), rest |-> Tail(it)]
         ELSE ListLoop(Tail(it), Append(acc, Head(it)), max)

get_tickers_for_exchange(it, max) == ListLoop(it, <<>>, max)

Perms(n) == {p \in [1..n -> 1..n] : \A a, b \in 1..n : a # b => p[a] # p[b]}
Permuted(s, p) == [k \in DOMAIN s |-> s[p[k]]]
Min(a, b) == IF a < b THEN a ELSE b

\* The lists get_market_caps_parallel can return for `ts`: one record per
\* ticker, in the order the futures completed, each with the cap its
\* worker ended with (SpecFetch is the model of how).
FetchResults(ts) ==
    {[k \in DOMAIN ts |-> [ticker |-> ts[p[k]], market_cap |-> m[k]]] :
        p \in Perms(Len(ts)), m \in [DOMAIN ts -> McapValues]}

Descending(s) ==
    \A a, b \in DOMAIN s : a < b => s[a].market_cap >= s[b].market_cap
Ascending(s) ==
    \A a, b \in DOMAIN s : a < b => s[a].market_cap <= s[b].market_cap

\* line 166, df.sort_values(by="market_cap", ascending=False): kind is left
\* at its default "quicksort", which pandas documents as not stable, so
\* rows with equal market_cap may come out in any order.
SortValuesAscending(rows) ==
    {Permuted(rows, p) : p \in {q \in Perms(Len(rows)) : Ascending(Permuted(rows, q))}}

SortValues(rows) ==
    {Permuted(rows, p) : p \in {q \in Perms(Len(rows)) : Descending(Permuted(rows, q))}}

\* line 166, .head(TOP_N)
head(rows, n) == SubSeq(rows, 1, Min(n, Len(rows)))

\* lines 167-168: the columns added to every row
Tagged(rows) ==
    [k \in DOMAIN rows |->
        [ticker |-> rows[k].ticker, market_cap |-> rows[k].market_cap,
         exchange |-> EXCHANGE, timestamp |-> "now@168"]]

\* lines 127-133: the per-symbol message
RowMessage(row) ==
    [type |-> "row", ticker |-> row.ticker, market_cap |-> row.market_cap,
     exchange |-> row.exchange, timestamp |-> row.timestamp, top_list |-> <<>>]

\* lines 137-142: the summary message
TopList(rows) ==
    [k \in DOMAIN rows |-> [ticker |-> rows[k].ticker, market_cap |-> rows[k].market_cap]]

SummaryMessageReversed(rows) ==
    [type |-> "summary", ticker |-> "", market_cap |-> 0,
     exchange |-> IF rows # <<>> THEN rows[1].exchange ELSE "",
     timestamp |-> "now@139",
     top_list |-> [k \in DOMAIN rows |-> TopList(rows)[Len(rows) + 1 - k]]]

SummaryMessage(rows) ==
    [type |-> "summary", ticker |-> "", market_cap |-> 0,
     exchange |-> IF rows # <<>> THEN rows[1].exchange ELSE "",
     timestamp |-> "now@139", top_list |-> TopList(rows)]

MsgId(k) == [t |-> "id", v |-> k]

\* lines 148-153: what one turn of the waiting loop appends for a handle
\* that is "ok", in "error", or still "pending" after 30 s
WaitOutcome(h) == IF h = "ok" THEN "ok" ELSE IF h = "error" THEN "error" ELSE "timeout"

AfterWaitStopAtFailure(res, k, h) ==
    IF h = "ok" THEN Append(res, MsgId(k)) ELSE res

AfterWait(res, k, h) ==
    IF h = "ok" THEN Append(res, MsgId(k)) ELSE Append(res, None)

\* line 159
GetTickers ==
    /\ bpc = "start"
    /\ LET r == get_tickers_for_exchange(listing, MAX_TICKERS)
       IN  tickers' = r.tickers /\ listing' = r.rest
    /\ bpc' = "fetch"
    /\ UNCHANGED <<mainVars, streamVars, fetchVars, data, df, sent, handle, waited, pub_results, ppc>>

\* line 162
FetchMarketCaps ==
    /\ bpc = "fetch"
    /\ data' \in FetchResults(tickers)
    /\ bpc' = "rank"
    /\ UNCHANGED <<mainVars, streamVars, tickers, fetchVars, listing, df, sent, handle, waited, pub_results, ppc>>

\* lines 164-168 when data is not empty
RankRows ==
    /\ bpc = "rank"
    /\ data # <<>>
    /\ \E s \in SortValues(data) : df' = Tagged(head(s, TOP_N))
    /\ bpc' = "publish"
    /\ ppc' = "publishing"
    /\ UNCHANGED <<mainVars, streamVars, tickers, fetchVars, listing, data, sent, handle, waited, pub_results>>

\* line 165 when data is empty: pd.DataFrame([]) has no column, and
\* df["market_cap"] raises KeyError, which nothing in process_exchange or
\* main catches
RankRaises ==
    /\ bpc = "rank"
    /\ data = <<>>
    /\ bpc' = "raised"
    /\ UNCHANGED <<mainVars, streamVars, tickers, fetchVars, listing, data, df, sent, handle, waited,
                   pub_results, ppc>>

\* lines 126-135
PublishRow ==
    /\ ppc = "publishing"
    /\ Len(sent) < Len(df)
    /\ sent' = Append(sent, RowMessage(df[Len(sent) + 1]))
    /\ handle' = Append(handle, "pending")
    /\ UNCHANGED <<mainVars, streamVars, tickers, fetchVars, listing, data, df, bpc, waited, pub_results, ppc>>

\* lines 137-144
PublishSummary ==
    /\ ppc = "publishing"
    /\ Len(sent) = Len(df)
    /\ sent' = Append(sent, SummaryMessage(df))
    /\ handle' = Append(handle, "pending")
    /\ ppc' = "waiting"
    /\ UNCHANGED <<mainVars, streamVars, tickers, fetchVars, listing, data, df, bpc, waited, pub_results>>

\* publisher.publish itself raises (line 134 or 143): the exception leaves
\* publish_top_rows and is caught at lines 172-173
PublishRaises ==
    /\ ppc = "publishing"
    /\ ppc' = "raised"
    /\ UNCHANGED <<mainVars, streamVars, tickers, fetchVars, listing, data, df, bpc, sent, handle, waited,
                   pub_results>>

\* the bus completes a publish, with a message id or with an error
BusCompletes(k, o) ==
    /\ ppc \in {"publishing", "waiting"}
    /\ k \in DOMAIN handle
    /\ handle[k] = "pending"
    /\ handle' = [handle EXCEPT ![k] = o]
    /\ UNCHANGED <<mainVars, streamVars, tickers, fetchVars, listing, data, df, bpc, sent, waited,
                   pub_results, ppc>>

\* lines 147-153 with the handles taken as they complete instead of in the
\* order of the list
WaitHandleAsCompleted ==
    /\ ppc = "waiting"
    /\ Len(waited) < Len(handle)
    /\ \E k \in DOMAIN handle :
          /\ handle[k] = "ok"
          /\ \A j \in DOMAIN pub_results : pub_results[j] # MsgId(k)
          /\ waited' = Append(waited, "ok")
          /\ pub_results' = Append(pub_results, MsgId(k))
    /\ UNCHANGED <<mainVars, streamVars, tickers, fetchVars, listing, data, df, bpc, sent, handle, ppc>>

\* lines 147-153: f.result(timeout=30) on the next handle returns its id,
\* raises its error, or raises TimeoutError if it is still pending
WaitHandle ==
    /\ ppc = "waiting"
    /\ Len(waited) < Len(handle)
    /\ LET k == Len(waited) + 1
       IN  /\ waited' = Append(waited, WaitOutcome(handle[k]))
           /\ pub_results' = AfterWait(pub_results, k, handle[k])
    /\ UNCHANGED <<mainVars, streamVars, tickers, fetchVars, listing, data, df, bpc, sent, handle, ppc>>

\* lines 154-155
PublishReturn ==
    /\ ppc = "waiting"
    /\ Len(waited) = Len(handle)
    /\ ppc' = "returned"
    /\ UNCHANGED <<mainVars, streamVars, tickers, fetchVars, listing, data, df, bpc, sent, handle, waited,
                   pub_results>>

\* lines 170-175
ProcessReturn ==
    /\ bpc = "publish"
    /\ ppc \in {"returned", "raised"}
    /\ bpc' = "returned"
    /\ UNCHANGED <<mainVars, streamVars, tickers, fetchVars, listing, data, df, sent, handle, waited,
                   pub_results, ppc>>

FetchIdle == fut = <<>> /\ results = <<>> /\ fpc = "idle"

InitBatch ==
    /\ FetchIdle
    /\ MainIdle
    /\ StreamIdle
    /\ tickers = <<>>
    /\ listing \in Listings
    /\ data = <<>> /\ df = <<>> /\ bpc = "start"
    /\ sent = <<>> /\ handle = <<>> /\ waited = <<>> /\ pub_results = <<>>
    /\ ppc = "idle"

NextBatch ==
    \/ GetTickers
    \/ FetchMarketCaps
    \/ RankRows
    \/ RankRaises
    \/ PublishRow
    \/ PublishSummary
    \/ PublishRaises
    \/ \E k \in DOMAIN handle, o \in {"ok", "error"} : BusCompletes(k, o)
    \/ WaitHandle
    \/ PublishReturn
    \/ ProcessReturn

SpecBatch == InitBatch /\ [][NextBatch]_vars

\* process_exchange up to the ranked DataFrame (lines 159-168)
NextRank ==
    \/ GetTickers
    \/ FetchMarketCaps
    \/ RankRows
    \/ RankRaises

SpecRank == InitBatch /\ [][NextRank]_vars

\* publish_top_rows on its own, called with any DataFrame process_exchange
\* can hand it (line 171)
Snapshots ==
    UNION {UNION {{Tagged(head(s, TOP_N)) : s \in SortValues(d)} :
                    d \in FetchResults(get_tickers_for_exchange(l, MAX_TICKERS).tickers) \ {<<>>}} :
           l \in Listings}

InitPublish ==
    /\ FetchIdle
    /\ MainIdle
    /\ StreamIdle
    /\ tickers = <<>> /\ listing = <<>> /\ data = <<>> /\ bpc = "idle"
    /\ df \in Snapshots
    /\ sent = <<>> /\ handle = <<>> /\ waited = <<>> /\ pub_results = <<>>
    /\ ppc = "publishing"

NextPublish ==
    \/ PublishRow
    \/ PublishSummary
    \/ PublishRaises
    \/ \E k \in DOMAIN handle, o \in {"ok", "error"} : BusCompletes(k, o)
    \/ WaitHandle
    \/ PublishReturn

SpecPublish == InitPublish /\ [][NextPublish]_vars

----------------------------------------------------------------------------
\* main: the whole invocation, with the fetcher's threads.

\* line 192: what main returns when every exchange was processed
Success == [t |-> "response", v |-> 200]

\* lines 180-184 with the failure of init_publisher logged and ignored
AfterInitPublisherIgnoreFailure(ok) == "exchanges"

\* lines 180-184: where main goes after init_publisher returned (ok) or
\* raised
AfterInitPublisher(ok) == IF ok THEN "exchanges" ELSE "returned_none"

\* what the caller of main got
MainResult ==
    CASE mainpc = "returned_ok" -> Success
      [] mainpc = "returned_none" -> None
      [] mainpc = "raised" -> [t |-> "exception", v |-> 0]
      [] OTHER -> [t |-> "pending", v |-> 0]

\* the listings of a run of main; the fetcher's threads are run step by
\* step, so the lists are kept to the length the fetcher is explored with
MainListings == {l \in Listings : Len(l) <= MaxTickers}

\* lines 179-186: init_publisher returns the client, or raises (ValueError
\* of line 118, or what PublisherClient() raises); on success the loop of
\* line 186 calls process_exchange for the one exchange of EXCHANGES
MainInit(ok) ==
    /\ mainpc = "start"
    /\ publisher' = IF ok THEN "PublisherClient" ELSE "failed"
    /\ mainpc' = AfterInitPublisher(ok)
    /\ bpc' = IF mainpc' = "exchanges" THEN "start" ELSE bpc
    /\ UNCHANGED <<streamVars, tickers, fetchVars, listing, data, df, sent, handle,
                   waited, pub_results, ppc>>

\* lines 101-104: get_market_caps_parallel is entered and submits every
\* ticker to the pool
SubmitAll ==
    /\ bpc = "fetch"
    /\ fpc = "idle"
    /\ fut' = [i \in DOMAIN tickers |-> NewFuture]
    /\ results' = <<>>
    /\ fpc' = "running"
    /\ UNCHANGED <<streamVars, mainVars, tickers, batchVars>>

\* line 162: get_market_caps_parallel has returned; its list is bound to
\* data, its futures and its pool are gone
FetchJoin ==
    /\ bpc = "fetch"
    /\ fpc = "returned"
    /\ data' = results
    /\ fut' = <<>>
    /\ results' = <<>>
    /\ fpc' = "idle"
    /\ bpc' = "rank"
    /\ UNCHANGED <<streamVars, mainVars, tickers, listing, df, sent, handle, waited,
                   pub_results, ppc>>

\* lines 186-192: process_exchange returned for the last exchange
MainReturn ==
    /\ mainpc = "exchanges"
    /\ bpc = "returned"
    /\ mainpc' = "returned_ok"
    /\ UNCHANGED <<streamVars, publisher, tickers, fetchVars, batchVars>>

\* line 187: the KeyError of line 165 leaves process_exchange and main
MainRaises ==
    /\ mainpc = "exchanges"
    /\ bpc = "raised"
    /\ mainpc' = "raised"
    /\ UNCHANGED <<streamVars, publisher, tickers, fetchVars, batchVars>>

InitMain ==
    /\ FetchIdle
    /\ StreamIdle
    /\ tickers = <<>>
    /\ listing \in MainListings
    /\ data = <<>> /\ df = <<>> /\ bpc = "idle"
    /\ sent = <<>> /\ handle = <<>> /\ waited = <<>> /\ pub_results = <<>>
    /\ ppc = "idle"
    /\ mainpc = "start" /\ publisher = "unset"

NextMain ==
    \/ \E ok \in BOOLEAN : MainInit(ok)
    \/ GetTickers
    \/ SubmitAll
    \/ \E i \in DOMAIN fut : WorkerStart(i)
    \/ \E i \in DOMAIN fut, o \in Outcomes : FirstLookup(i, o)
    \/ \E i \in DOMAIN fut, o \in Outcomes : Retry(i, o)
    \/ \E i \in DOMAIN fut : WorkerReturn(i)
    \/ \E i \in DOMAIN fut : WorkerRaise(i)
    \/ \E i \in DOMAIN fut : Collect(i)
    \/ FetchReturn
    \/ FetchJoin
    \/ RankRows
    \/ RankRaises
    \/ PublishRow
    \/ PublishSummary
    \/ PublishRaises
    \/ \E k \in DOMAIN handle, o \in {"ok", "error"} : BusCompletes(k, o)
    \/ WaitHandle
    \/ PublishReturn
    \/ ProcessReturn
    \/ MainReturn
    \/ MainRaises

SpecMain == InitMain /\ [][NextMain]_vars

----------------------------------------------------------------------------
\* Properties of the ranking.

\* the place of a ticker's record in the list the fetcher returned
Arrival(t) == CHOOSE k \in DOMAIN data : data[k].ticker = t

\* the one descending order that keeps tied records in arrival order
StableDescending(rows) ==
    CHOOSE s \in SortValues(rows) :
        \A a, b \in DOMAIN s :
            (a < b /\ s[a].market_cap = s[b].market_cap) =>
                Arrival(s[a].ticker) < Arrival(s[b].ticker)

Ranked == bpc \in {"publish", "returned"}

\* C4: in the ranked snapshot, records with equal market_cap keep the order
\* in which they arrived from the fetcher, also across the top-N cut: the
\* snapshot is the first TOP_N rows of the stable descending sort.
C4_StableTieBreak ==
    Ranked => df = Tagged(head(StableDescending(data), TOP_N))

\* C5: the ranked snapshot is in non-increasing market_cap order, its rows
\* are distinct records of the fetched data, and every fetched record left
\* out has a market_cap <= that of every row kept.
C5_SortedTopN ==
    Ranked =>
        /\ Descending(df)
        /\ \A k \in DOMAIN df :
              /\ \E j \in DOMAIN data :
                    /\ data[j].ticker = df[k].ticker
                    /\ data[j].market_cap = df[k].market_cap
              /\ \A l \in DOMAIN df : l # k => df[l].ticker # df[k].ticker
        /\ \A j \in DOMAIN data :
              (\A k \in DOMAIN df : df[k].ticker # data[j].ticker) =>
                  \A k \in DOMAIN df : data[j].market_cap <= df[k].market_cap

\* three records fetched with three different caps, the smallest arriving
\* first, ranked and cut to two
C5_Witness ==
    /\ Ranked
    /\ Len(data) = 3 /\ Len(df) = 2
    /\ data[1].market_cap < data[2].market_cap
    /\ data[2].market_cap < data[3].market_cap
    /\ df[1].ticker = data[3].ticker
    /\ df[2].ticker = data[2].ticker

\* C6: whatever the source lists, an empty listing included,
\* process_exchange gets to a ranked snapshot of exactly
\* min(TOP_N, len(data)) rows; it never fails to produce one.
C6_AlwaysSnapshot ==
    /\ bpc # "raised"
    /\ Ranked => Len(df) = Min(TOP_N, Len(data))

----------------------------------------------------------------------------
\* Properties of the publication.

\* C7: publish_top_rows hands the bus the per-symbol message of row k as
\* its k-th message, for each of the n rows, then one summary message
\* whose top_list is the n (ticker, market_cap) pairs in ranking order;
\* never more; and when it returns all n + 1 have been handed over.
C7_RowsThenSummary ==
    /\ Len(sent) <= Len(df) + 1
    /\ \A k \in DOMAIN sent :
          IF k <= Len(df)
          THEN /\ sent[k].type = "row"
               /\ sent[k].ticker = df[k].ticker
               /\ sent[k].market_cap = df[k].market_cap
               /\ sent[k].exchange = EXCHANGE
               /\ sent[k].timestamp = df[k].timestamp
          ELSE /\ sent[k].type = "summary"
               /\ sent[k].exchange = EXCHANGE
               /\ Len(sent[k].top_list) = Len(df)
               /\ \A j \in DOMAIN df :
                     /\ sent[k].top_list[j].ticker = df[j].ticker
                     /\ sent[k].top_list[j].market_cap = df[j].market_cap
    /\ ppc \in {"waiting", "returned"} => Len(sent) = Len(df) + 1

\* a snapshot of two rows with different caps, published and returned
C7_Witness ==
    /\ ppc = "returned"
    /\ Len(df) = 2
    /\ df[1].market_cap > df[2].market_cap
    /\ Len(sent) = 3
    /\ sent[3].type = "summary"

Failed == {"error", "timeout"}

\* C8: every wait on a handle appends one outcome, the message id if the
\* handle gave one and None if it raised or timed out; no failure of a
\* handle makes publish_top_rows raise; when it returns it has waited on
\* all n + 1 handles and returns n + 1 outcomes.
C8_BestEffortOutcomes ==
    /\ Len(pub_results) = Len(waited)
    /\ \A k \in DOMAIN waited :
          /\ k \in DOMAIN pub_results
          /\ waited[k] \in Failed <=> pub_results[k] = None
          /\ waited[k] = "ok" <=> pub_results[k] = MsgId(k)
    /\ ppc = "raised" => waited = <<>> /\ Len(handle) <= Len(df)
    /\ ppc = "returned" =>
          /\ Len(waited) = Len(df) + 1
          /\ Len(pub_results) = Len(df) + 1

\* every row's handle gave its id and the summary's handle timed out
C8_Witness ==
    /\ ppc = "returned"
    /\ Len(df) = TOP_N
    /\ \A k \in 1..Len(df) : waited[k] = "ok" /\ pub_results[k] = MsgId(k)
    /\ waited[Len(df) + 1] = "timeout"
    /\ pub_results[Len(df) + 1] = None

----------------------------------------------------------------------------
\* websocket_to_pubsub.py: the refresh thread and the websocket callback.

\* lines 15-19: the keys of TABLES, in the order the dict literal gives
TABLES == <<"XNAS", "XNYS", "XASE">>

\* lines 22-26 with the topics of XNYS and XASE exchanged
init_pubsub_topic_swapped(exchange) ==
    CASE exchange = "XNAS" -> "xnas-websocket"
      [] exchange = "XNYS" -> "xase-websocket"
      [] exchange = "XASE" -> "xnys-websocket"

\* lines 22-26, 52-54
init_pubsub_topic(exchange) ==
    CASE exchange = "XNAS" -> "xnas-websocket"
      [] exchange = "XNYS" -> "xnys-websocket"
      [] exchange = "XASE" -> "xase-websocket"

\* lines 38-49: the sets a query of one exchange's table can give
TickerSets == {{}, {"AAA"}}

\* the symbols of the messages the feed delivers; "" is a message with no
\* symbol (line 62)
Symbols == {"AAA", "ZZZ", ""}
Batches == SeqsUpTo(Symbols, MaxBatch) \ {<<>>}

\* d[ex] = s on a dict kept as its items in insertion order
DictSet(d, ex, s) ==
    IF \E k \in DOMAIN d : d[k].exchange = ex
    THEN [k \in DOMAIN d |->
            IF d[k].exchange = ex THEN [exchange |-> ex, tickers |-> s] ELSE d[k]]
    ELSE Append(d, [exchange |-> ex, tickers |-> s])

\* lines 96, 104: a dict with every exchange of TABLES
CompleteDicts ==
    {[k \in DOMAIN TABLES |-> [exchange |-> TABLES[k], tickers |-> f[k]]] :
        f \in [DOMAIN TABLES -> TickerSets]}

\* line 96: the dict object the comprehension fills is a new one, the last
\* allocated; the installed dict is not touched
BuildTargetInPlace(ds, cur) == cur

BuildTarget(ds, cur) == Len(ds)

\* line 96 when a query raises: the assignment is not executed, the global
\* keeps its value
AfterQueryFailureInstallPartial(cur, target) == target

AfterQueryFailure(cur, target) == cur

\* lines 93-96: a rebuild is due; the comprehension starts on a new dict
RefreshCheckDue ==
    /\ rpc = "check"
    /\ elapsed >= RefreshTicks
    /\ refreshes < MaxRefreshes
    /\ dicts' = Append(dicts, <<>>)
    /\ rq' = 0
    /\ refreshes' = refreshes + 1
    /\ rpc' = "build"
    /\ UNCHANGED <<all_tickers_by_exchange, gens, elapsed, routerVars,
                   tickers, fetchVars, batchVars, mainVars>>

\* lines 93-94, 98: no rebuild is due
RefreshCheckNotDue ==
    /\ rpc = "check"
    /\ elapsed < RefreshTicks
    /\ rpc' = "sleep"
    /\ UNCHANGED <<dicts, all_tickers_by_exchange, gens, rq, elapsed, refreshes,
                   routerVars, tickers, fetchVars, batchVars, mainVars>>

\* line 96: get_tickers_from_bigquery(ex) returns for the next exchange
RefreshQuery(s) ==
    /\ rpc = "build"
    /\ rq < Len(TABLES)
    /\ LET t == BuildTarget(dicts, all_tickers_by_exchange)
       IN  dicts' = [dicts EXCEPT ![t] = DictSet(@, TABLES[rq + 1], s)]
    /\ rq' = rq + 1
    /\ UNCHANGED <<all_tickers_by_exchange, gens, rpc, elapsed, refreshes,
                   routerVars, tickers, fetchVars, batchVars, mainVars>>

\* line 96 / line 46: the query raises; nothing in refresh_tickers_every
\* catches it, the exception ends the thread
RefreshQueryFails ==
    /\ rpc = "build"
    /\ rq < Len(TABLES)
    /\ all_tickers_by_exchange' =
          AfterQueryFailure(all_tickers_by_exchange,
                            BuildTarget(dicts, all_tickers_by_exchange))
    /\ rpc' = "dead"
    /\ UNCHANGED <<dicts, gens, rq, elapsed, refreshes,
                   routerVars, tickers, fetchVars, batchVars, mainVars>>

\* lines 96-97: the global is bound to the finished dict
RefreshInstall ==
    /\ rpc = "build"
    /\ rq = Len(TABLES)
    /\ all_tickers_by_exchange' = BuildTarget(dicts, all_tickers_by_exchange)
    /\ gens' = Append(gens, [id |-> all_tickers_by_exchange',
                              content |-> dicts[all_tickers_by_exchange']])
    /\ elapsed' = 0
    /\ rpc' = "sleep"
    /\ UNCHANGED <<dicts, rq, refreshes, routerVars, tickers, fetchVars, batchVars, mainVars>>

\* line 98
RefreshSleep ==
    /\ rpc = "sleep"
    /\ elapsed' = Min(elapsed + 1, RefreshTicks)
    /\ rpc' = "check"
    /\ UNCHANGED <<dicts, all_tickers_by_exchange, gens, rq, refreshes,
                   routerVars, tickers, fetchVars, batchVars, mainVars>>

\* line 116: the websocket client calls handle_msg with a batch
Deliver(b) ==
    /\ mpc = "idle"
    /\ msgs' = b
    /\ published' = <<>>
    /\ outcome' = "none"
    /\ npub' = 0
    /\ mpc' = "next"
    /\ UNCHANGED <<symbol, view, scan, refreshVars, tickers, fetchVars, batchVars, mainVars>>

\* lines 59-63: a message without symbol is skipped
SkipMessage ==
    /\ mpc = "next"
    /\ msgs # <<>>
    /\ Head(msgs) = ""
    /\ symbol' = Head(msgs)
    /\ msgs' = Tail(msgs)
    /\ outcome' = "skipped"
    /\ npub' = 0
    /\ UNCHANGED <<view, scan, mpc, published, refreshVars,
                   tickers, fetchVars, batchVars, mainVars>>

\* lines 59-66 with the dict of the first message kept for the later ones
NextMessageCachedIndex ==
    /\ mpc = "next"
    /\ msgs # <<>>
    /\ Head(msgs) # ""
    /\ symbol' = Head(msgs)
    /\ msgs' = Tail(msgs)
    /\ view' = IF view = 0 THEN all_tickers_by_exchange ELSE view
    /\ scan' = 1
    /\ npub' = 0
    /\ mpc' = "scan"
    /\ UNCHANGED <<published, outcome, refreshVars, tickers, fetchVars, batchVars, mainVars>>

\* lines 59-66: the next message; the global is read once, and the loop of
\* line 66 iterates the items of the dict it referred to then
NextMessage ==
    /\ mpc = "next"
    /\ msgs # <<>>
    /\ Head(msgs) # ""
    /\ symbol' = Head(msgs)
    /\ msgs' = Tail(msgs)
    /\ view' = all_tickers_by_exchange
    /\ scan' = 1
    /\ npub' = 0
    /\ mpc' = "scan"
    /\ UNCHANGED <<published, outcome, refreshVars, tickers, fetchVars, batchVars, mainVars>>

\* line 59: the batch is exhausted, handle_msg returns and its locals are
\* gone
BatchDone ==
    /\ mpc = "next"
    /\ msgs = <<>>
    /\ symbol' = ""
    /\ view' = 0
    /\ scan' = 0
    /\ mpc' = "idle"
    /\ UNCHANGED <<msgs, published, outcome, npub, refreshVars,
                   tickers, fetchVars, batchVars, mainVars>>

\* lines 66-67: the symbol is not in this exchange's set
ScanMiss ==
    /\ mpc = "scan"
    /\ scan <= Len(dicts[view])
    /\ symbol \notin dicts[view][scan].tickers
    /\ scan' = scan + 1
    /\ UNCHANGED <<msgs, symbol, view, mpc, published, outcome, npub, refreshVars,
                   tickers, fetchVars, batchVars, mainVars>>

\* line 66: the items are exhausted; the message ends, dropped if no
\* exchange had the symbol
ScanEnd ==
    /\ mpc = "scan"
    /\ scan > Len(dicts[view])
    /\ outcome' = IF npub = 0 THEN "dropped" ELSE "published"
    /\ mpc' = "next"
    /\ UNCHANGED <<msgs, symbol, view, scan, published, npub, refreshVars,
                   tickers, fetchVars, batchVars, mainVars>>

\* lines 67-82 without the break of line 82
ScanPublishNoBreak ==
    /\ mpc = "scan"
    /\ scan <= Len(dicts[view])
    /\ symbol \in dicts[view][scan].tickers
    /\ published' = Append(published,
            [symbol |-> symbol, exchange |-> dicts[view][scan].exchange,
             topic |-> init_pubsub_topic(dicts[view][scan].exchange),
             view |-> view])
    /\ npub' = npub + 1
    /\ scan' = scan + 1
    /\ UNCHANGED <<msgs, symbol, view, mpc, outcome, refreshVars,
                   tickers, fetchVars, batchVars, mainVars>>

\* lines 67-82: first exchange whose set has the symbol; publish and break
ScanPublish ==
    /\ mpc = "scan"
    /\ scan <= Len(dicts[view])
    /\ symbol \in dicts[view][scan].tickers
    /\ published' = Append(published,
            [symbol |-> symbol, exchange |-> dicts[view][scan].exchange,
             topic |-> init_pubsub_topic(dicts[view][scan].exchange),
             view |-> view])
    /\ npub' = npub + 1
    /\ outcome' = "published"
    /\ mpc' = "next"
    /\ UNCHANGED <<msgs, symbol, view, scan, refreshVars, tickers, fetchVars, batchVars, mainVars>>

\* lines 68-85 with the try around the loop of line 59 instead of inside it
ScanPublishFailsLeavesLoop ==
    /\ mpc = "scan"
    /\ scan <= Len(dicts[view])
    /\ symbol \in dicts[view][scan].tickers
    /\ outcome' = "failed"
    /\ msgs' = <<>>
    /\ mpc' = "idle"
    /\ UNCHANGED <<symbol, view, scan, published, npub, refreshVars,
                   tickers, fetchVars, batchVars, mainVars>>

\* lines 68-85: building or publishing the record raises; the exception is
\* caught at line 84 and the loop goes to the next message
ScanPublishFails ==
    /\ mpc = "scan"
    /\ scan <= Len(dicts[view])
    /\ symbol \in dicts[view][scan].tickers
    /\ outcome' = "failed"
    /\ mpc' = "next"
    /\ UNCHANGED <<msgs, symbol, view, scan, published, npub, refreshVars,
                   tickers, fetchVars, batchVars, mainVars>>

\* lines 104-116: the index is loaded once before the refresh thread and
\* the websocket client start; last_refresh = 0 makes the first check due
InitStream ==
    /\ FetchIdle /\ BatchIdle /\ MainIdle /\ tickers = <<>>
    /\ dicts \in {<<d>> : d \in CompleteDicts}
    /\ all_tickers_by_exchange = 1
    /\ gens = <<[id |-> 1, content |-> dicts[1]]>>
    /\ rpc = "check" /\ rq = 0 /\ elapsed = RefreshTicks /\ refreshes = 0
    /\ msgs = <<>> /\ symbol = "" /\ view = 0 /\ scan = 0 /\ mpc = "idle"
    /\ published = <<>> /\ outcome = "none" /\ npub = 0

NextStream ==
    \/ RefreshCheckDue
    \/ RefreshCheckNotDue
    \/ \E s \in TickerSets : RefreshQuery(s)
    \/ RefreshQueryFails
    \/ RefreshInstall
    \/ RefreshSleep
    \/ \E b \in Batches : Deliver(b)
    \/ SkipMessage
    \/ NextMessage
    \/ BatchDone
    \/ ScanMiss
    \/ ScanEnd
    \/ ScanPublish
    \/ ScanPublishFails

SpecStream == InitStream /\ [][NextStream]_vars

----------------------------------------------------------------------------
\* Properties of the membership index.

\* the dict object `id` is one the global was bound to, it has every
\* exchange, and it is as it was when it was installed
InstalledGeneration(id) ==
    /\ id \in DOMAIN dicts
    /\ dicts[id] \in CompleteDicts
    /\ \E k \in DOMAIN gens : gens[k].id = id /\ gens[k].content = dicts[id]

\* C9: at every moment the global refers to a fully built, installed
\* dict, and the dict a message is being routed against is one such
\* generation, unchanged since its installation: never the dict a rebuild
\* is filling, never a mix of two generations.
C9_OneGeneration ==
    /\ InstalledGeneration(all_tickers_by_exchange)
    /\ mpc = "scan" => InstalledGeneration(view)

\* a message is half-way through its scan of generation 1 while a rebuild
\* has installed a generation 2 that differs on an exchange not yet scanned
C9_Witness ==
    /\ mpc = "scan"
    /\ scan = 2
    /\ view = 1
    /\ all_tickers_by_exchange = 2
    /\ dicts[1][3].tickers # dicts[2][3].tickers

\* C10: after a refresh tick in which a query raised, the global still
\* refers to the generation installed before the tick, and that dict still
\* has, for every exchange, the set it was installed with.
C10_FailedTickKeepsIndex ==
    rpc = "dead" =>
        /\ all_tickers_by_exchange = gens[Len(gens)].id
        /\ dicts[all_tickers_by_exchange] = gens[Len(gens)].content
        /\ dicts[all_tickers_by_exchange] \in CompleteDicts

\* the third query of a rebuild raised after two had given sets other
\* than the installed ones, and a message is then routed against the
\* generation installed before
C10_Witness ==
    /\ rpc = "dead"
    /\ rq = 2
    /\ Len(dicts[Len(dicts)]) = 2
    /\ dicts[Len(dicts)][1].tickers # dicts[all_tickers_by_exchange][1].tickers
    /\ mpc = "scan"
    /\ view = all_tickers_by_exchange
    /\ view = gens[Len(gens)].id

\* C11: a query that raises during a refresh tick does not end the refresh
\* loop: the thread skips the tick and stays in its cycle of check, rebuild
\* and sleep, so that a later due tick can install a new index.
C11_RefreshLoopSurvives ==
    rpc \in {"check", "build", "sleep"}

----------------------------------------------------------------------------
\* Properties of the router.

\* the positions of the items of dict d whose set has the symbol
Holders(d, sym) == {k \in DOMAIN d : sym \in d[k].tickers}

\* the first such position in the order of the items
FirstMatch(d, sym) == CHOOSE k \in Holders(d, sym) : \A j \in Holders(d, sym) : k <= j

\* the keys of a dict in the order of its items
Keys(d) == [k \in DOMAIN d |-> d[k].exchange]

\* C12: every generation is scanned in the order XNAS, XNYS, XASE; no
\* message is published more than once, and a published message went to
\* the first exchange in that order whose set has its symbol, also when
\* later exchanges have it too.
C12_FirstMatchOnly ==
    /\ \A g \in DOMAIN gens : Keys(gens[g].content) = TABLES
    /\ npub <= 1
    /\ \A k \in DOMAIN published :
          LET d == dicts[published[k].view]
              sym == published[k].symbol
          IN  /\ Holders(d, sym) # {}
              /\ published[k].exchange = TABLES[FirstMatch(d, sym)]
              /\ published[k].topic = init_pubsub_topic(published[k].exchange)

\* a symbol that XNYS and XASE both have, and XNAS has not, went to XNYS
\* and nowhere else
C12_Witness ==
    /\ mpc = "next"
    /\ outcome = "published"
    /\ npub = 1
    /\ Holders(dicts[view], symbol) = {2, 3}
    /\ published[Len(published)].symbol = symbol
    /\ published[Len(published)].exchange = "XNYS"

\* the topic of lines 22-26 for an exchange code
TopicOf(exchange) ==
    CASE exchange = "XNAS" -> "xnas-websocket"
      [] exchange = "XNYS" -> "xnys-websocket"
      [] exchange = "XASE" -> "xase-websocket"

\* C13: a message whose symbol no exchange of its generation has is
\* dropped, with no publish and no error; a message whose symbol exactly
\* one exchange has gets one publish call, and what is published is one
\* record, on that exchange's topic, with that exchange's code.
C13_MembershipDecides ==
    (mpc = "next" /\ outcome \notin {"none", "skipped"}) =>
        LET H == Holders(dicts[view], symbol)
        IN  /\ H = {} => outcome = "dropped" /\ npub = 0
            /\ Cardinality(H) = 1 =>
                  /\ outcome \in {"published", "failed"}
                  /\ outcome = "failed" => npub = 0
                  /\ outcome = "published" =>
                        /\ npub = 1
                        /\ published # <<>>
                        /\ \A e \in H :
                              published[Len(published)] =
                                  [symbol |-> symbol, exchange |-> TABLES[e],
                                   topic |-> TopicOf(TABLES[e]), view |-> view]

\* a symbol only XASE has was published once, on the topic of XASE
C13_Witness ==
    /\ mpc = "next"
    /\ outcome = "published"
    /\ Holders(dicts[view], symbol) = {3}
    /\ published = <<[symbol |-> symbol, exchange |-> "XASE",
                      topic |-> "xase-websocket", view |-> view]>>

\* C14: a failure while building or publishing one message's record ends
\* that message only: the step that fails leaves the rest of the batch,
\* the index and what was published as they were and puts the loop at its
\* next message, as a successful publish does; after it the next message
\* is taken, or handle_msg returns and a later batch can be delivered.
C14_FailureAbsorbed ==
    [][ /\ (mpc = "scan" /\ mpc' # "scan") => (mpc' = "next" /\ msgs' = msgs)
        /\ (mpc = "scan" /\ outcome' = "failed" /\ mpc' # "scan") =>
              /\ published' = published
              /\ UNCHANGED <<refreshVars, view, symbol>>
        /\ (outcome = "failed" /\ mpc = "next") =>
              /\ ENABLED (NextMessage \/ SkipMessage \/ BatchDone)
              /\ mpc' = "scan" => symbol' = Head(msgs) /\ view' = all_tickers_by_exchange
        /\ (outcome = "failed" /\ mpc = "idle") => \A b \in Batches : ENABLED Deliver(b)
      ]_vars

\* the message before failed and the next message of the batch is being
\* routed, about to be published on the first exchange
C14_Witness ==
    /\ outcome = "failed"
    /\ mpc = "scan"
    /\ scan = 1
    /\ symbol \in dicts[view][1].tickers

\* C19: the routing of a message starts by reading the global, so the
\* dict it scans is the one installed last at that moment, and no older
\* one; taking the next message never waits for the refresh thread, it
\* is possible whenever a message is left, also in the middle of a rebuild.
C19_LatestGenerationNoWait ==
    [][ /\ (mpc = "next" /\ mpc' = "scan") =>
              /\ view' = all_tickers_by_exchange
              /\ view' = gens[Len(gens)].id
        /\ (mpc = "next" /\ msgs # <<>>) => ENABLED (NextMessage \/ SkipMessage)
        /\ mpc = "scan" => ENABLED (ScanMiss \/ ScanEnd \/ ScanPublish)
      ]_vars

\* a message whose routing started after the refresh installed generation
\* 2 scans generation 2, while an earlier message of the batch was
\* published against generation 1
C19_Witness ==
    /\ mpc = "scan"
    /\ Len(gens) = 2
    /\ view = gens[2].id
    /\ published # <<>>
    /\ published[1].view = gens[1].id

----------------------------------------------------------------------------
\* Properties of the worker pool.

\* the tickers whose lookup has started and has not finished its
\* inter-request delay
LookupsInProgress ==
    {i \in DOMAIN fut : fut[i].phase \in {"calling", "backoff", "delay"}}

\* C17: at every moment at most MAX_WORKERS tickers are between the first
\* call of their lookup and the end of their inter-request delay, the
\* retry and its backoff included; while that many are, every other
\* ticker has either finished or not started.
C17_PoolBound ==
    /\ Cardinality(LookupsInProgress) <= MAX_WORKERS
    /\ \A i \in DOMAIN fut :
          i \notin LookupsInProgress => fut[i].phase \in {"queued", "done", "raised"}

\* every pool thread is taken, one of them in the delay after its lookup,
\* and a ticker waits
C17_Witness ==
    /\ Cardinality(LookupsInProgress) = MAX_WORKERS
    /\ \E i \in DOMAIN fut : fut[i].phase = "delay"
    /\ \E i \in DOMAIN fut : fut[i].phase = "queued"

----------------------------------------------------------------------------
\* Properties of the publication of a snapshot.

\* C15: when publish_top_rows is over, whatever failed in it, it has an
\* outcome for each of the n + 1 messages, the summary was handed to the
\* publisher, and so was every per-symbol message but the ones that failed.
C15_PublishFailureIsolated ==
    ppc \in {"returned", "raised"} =>
        /\ Len(pub_results) = Len(df) + 1
        /\ \E k \in DOMAIN sent : sent[k].type = "summary"
        /\ \A r \in DOMAIN df :
              \/ \E k \in DOMAIN sent : sent[k] = RowMessage(df[r])
              \/ (r \in DOMAIN pub_results /\ pub_results[r] = None)

\* C20: the k-th message handed to the publisher is the message of the
\* k-th ranked row, the summary comes after all of them, and the k-th
\* outcome is the id the k-th handle gave, or None, at whatever moment and
\* in whatever order the handles completed.
C20_OutcomesAligned ==
    /\ Len(pub_results) <= Len(sent)
    /\ \A k \in DOMAIN sent :
          /\ k <= Len(df) + 1
          /\ k <= Len(df) => sent[k] = RowMessage(df[k])
          /\ k = Len(df) + 1 => sent[k].type = "summary"
    /\ \A k \in DOMAIN pub_results :
          /\ pub_results[k] \in {None, MsgId(k)}
          /\ pub_results[k] = MsgId(k) => handle[k] = "ok"
    /\ ppc = "returned" => Len(pub_results) = Len(df) + 1

\* the first handle completed only after the wait on it had timed out and
\* the later handles had given their ids: its place holds None, theirs
\* hold their ids
C20_Witness ==
    /\ ppc = "returned"
    /\ Len(df) = TOP_N
    /\ handle[1] = "ok"
    /\ waited[1] = "timeout"
    /\ pub_results[1] = None
    /\ \A k \in 2..(Len(df) + 1) : pub_results[k] = MsgId(k)

----------------------------------------------------------------------------
\* Properties of an invocation of main.

\* C16: when init_publisher fails, main is over at once: process_exchange
\* is never entered, so no ticker is listed, no lookup is submitted and no
\* message is handed to a publisher; what the caller gets is not the
\* success response.
C16_InitFailureAborts ==
    publisher = "failed" =>
        /\ mainpc = "returned_none"
        /\ MainResult # Success
        /\ bpc = "idle"
        /\ tickers = <<>>
        /\ listing \in MainListings
        /\ fpc = "idle" /\ fut = <<>> /\ results = <<>>
        /\ data = <<>> /\ df = <<>>
        /\ ppc = "idle" /\ sent = <<>> /\ handle = <<>>

\* init_publisher failed for a listing that has tickers to enumerate
C16_Witness ==
    /\ publisher = "failed"
    /\ mainpc = "returned_none"
    /\ get_tickers_for_exchange(listing, MAX_TICKERS).tickers # <<>>

\* every submitted lookup has finished, with a value or with an exception
AllLookupsComplete == \A i \in DOMAIN fut : fut[i].phase \in {"done", "raised"}

\* C18: while get_market_caps_parallel runs nothing is ranked or
\* published; it returns to process_exchange only when every submitted
\* lookup has finished and has its record in the list; and from the moment
\* the lookups are all finished nothing holds the run back: collecting,
\* returning and ranking are each possible in turn.
C18_JoinBarrier ==
    [][ /\ bpc = "fetch" => (df = <<>> /\ sent = <<>> /\ ppc = "idle")
        /\ (bpc = "fetch" /\ bpc' # "fetch") =>
              /\ bpc' = "rank"
              /\ AllLookupsComplete
              /\ Len(fut) = Len(tickers)
              /\ Len(data') = Len(tickers)
        /\ (df' # df \/ sent' # sent) => (bpc \in {"rank", "publish"} /\ fut = <<>>)
        /\ (bpc = "fetch" /\ fpc = "running" /\ AllLookupsComplete) =>
              ENABLED ((\E i \in DOMAIN fut : Collect(i)) \/ FetchReturn)
        /\ (bpc = "fetch" /\ fpc = "returned") => ENABLED FetchJoin
        /\ bpc = "rank" => ENABLED (RankRows \/ RankRaises)
      ]_vars

\* two lookups were submitted, one of them ended with a market cap of 0,
\* and the run has ranked both records and published the first row
C18_Witness ==
    /\ Len(tickers) = 2
    /\ bpc = "publish"
    /\ Len(df) = 2
    /\ Len(sent) = 1
    /\ fut = <<>>
    /\ \E k \in DOMAIN data : data[k].market_cap = 0

====
